---------------------------- MODULE Spec2Model ----------------------------
(***************************************************************************)
(* A model of panfletos_rss_generator.py: the scraper and RSS renderer of  *)
(* the "Panfletos" programme.                                              *)
(*                                                                         *)
(* Text.  A Python str is modelled as a sequence of atoms.  A character    *)
(* that comes from data (a title, an href, a date string, a constant of    *)
(* the configuration) is a one-character atom, so that strip, split,       *)
(* replace, the regular expressions and int() work on characters as the    *)
(* code does.  The fixed markup of an f-string of generate_rss() is kept   *)
(* as one atom per literal run (for instance "      <title>"), which keeps *)
(* the markup the template writes apart from the characters the data       *)
(* contributes.  None is the one-atom sequence <<"None">>.                 *)
(*                                                                         *)
(* Exceptions.  A function that can raise returns [ok |-> TRUE, val |-> v] *)
(* or [ok |-> FALSE, exc |-> name].                                        *)
(***************************************************************************)
EXTENDS Integers, Sequences, FiniteSets, TLC

VARIABLES
    pc,           \* position in main(): "start", "resolve", "write", "done";
                  \* "call" in the specification of the pure functions
    offline,      \* args.offline
    now,          \* what datetime.now() returns during the run
    modules,      \* the importable third-party modules of the environment
    page,         \* resp.text: whether it was received, and its anchors
    episodes,     \* the list `episodes` of fetch_episodes_online()
    i,            \* how many episodes the loop of lines 183-189 has done
    calls,        \* the invocations of extract_audio_url() so far, with results
    exc,          \* the exception main() caught at line 308, or "none"
    xml_content,  \* main()'s xml_content
    out_file,     \* the file main() writes at lines 313-314
    call          \* the function call under study (pure-function specification)

vars == <<pc, offline, now, modules, page, episodes, i, calls, exc, xml_content, out_file, call>>

(* ---- Bounds of the model ---- *)
MaxLinks == 2      \* anchors on a page
MaxLen == 3        \* characters of an xml_escape() input
MaxTokens == 4     \* words of a date string
MaxEpisodes == 2   \* records of a generate_rss() input
MaxSeconds == 3800 \* seconds of a format_itunes_duration() input

(* ---- Configuration (module-level constants of the script) ---- *)
PROGRAM_ID ==
    <<"p", "8", "3", "3", "9">>
PROGRAM_SLUG ==
    <<"p", "a", "n", "f", "l", "e", "t", "o", "s">>
PROGRAM_TITLE ==
    <<"P", "a", "n", "f", "l", "e", "t", "o", "s">>
PROGRAM_AUTHOR ==
    <<"P", "e", "d", "r", "o", " ", "T", "a", "d", "e", "u">>
PROGRAM_DESCRIPTION ==
    <<"A", "s", " ", "p", "a", "l", "a", "v", "r", "a", "s", "-", "c", "h", "a", "v",
      "e", " ", "d", "e", "s", "t", "e", " ", "p", "r", "o", "j", "e", "t", "o", " ",
      "s", "ã", "o", " ", "e", "s", "t", "a", "s", ":", " ", "m", "ú", "s", "i", "c",
      "a", "-", "p", "o", "l", "í", "t", "i", "c", "a", ",", " ", "c", "a", "n", "ç",
      "õ", "e", "s", "-", "p", "o", "d", "e", "r", ",", " ", "c", "r", "i", "a", "t",
      "i", "v", "i", "d", "a", "d", "e", "-", "r", "e", "s", "i", "s", "t", "ê", "n",
      "c", "i", "a", ",", " ", "c", "u", "l", "t", "u", "r", "a", "-", "o", "p", "r",
      "e", "s", "s", "ã", "o", ",", " ", "t", "a", "l", "e", "n", "t", "o", "-", "c",
      "e", "n", "s", "u", "r", "a", ",", " ", "p", "o", "e", "s", "i", "a", "-", "l",
      "i", "b", "e", "r", "d", "a", "d", "e", ",", " ", "a", "r", "t", "e", "-", "c",
      "a", "u", "s", "a", "s", ".", " ", "P", "a", "n", "f", "l", "e", "t", "o", "s",
      " ", "f", "o", "i", " ", "u", "m", " ", "p", "r", "o", "g", "r", "a", "m", "a",
      " ", "d", "e", " ", "R", "u", "b", "e", "n", " ", "d", "e", " ", "C", "a", "r",
      "v", "a", "l", "h", "o", " ", "n", "a", " ", "a", "n", "t", "i", "g", "a", " ",
      "T", "e", "l", "e", "f", "o", "n", "i", "a", " ", "d", "e", " ", "L", "i", "s",
      "b", "o", "a", ".", " ", "R", "e", "c", "r", "i", "a", "d", "o", " ", "a", "g",
      "o", "r", "a", " ", "p", "o", "r", " ", "P", "e", "d", "r", "o", " ", "T", "a",
      "d", "e", "u", ",", " ", "n", "a", " ", "A", "n", "t", "e", "n", "a", " ", "1",
      ",", " ", "t", "r", "a", "t", "a", " ", "d", "a", " ", "r", "e", "l", "a", "ç",
      "ã", "o", " ", "í", "n", "t", "i", "m", "a", ",", " ", "a", "o", " ", "l", "o",
      "n", "g", "o", " ", "d", "o", "s", " ", "t", "e", "m", "p", "o", "s", ",", " ",
      "d", "a", " ", "a", "r", "t", "e", " ", "m", "u", "s", "i", "c", "a", "l", " ",
      "c", "o", "m", " ", "a", " ", "v", "i", "d", "a", " ", "e", " ", "a", " ", "l",
      "u", "t", "a", " ", "d", "o", "s", " ", "p", "o", "v", "o", "s", ".", " ", "D",
      "i", "a", "r", "i", "a", "m", "e", "n", "t", "e", ":", " ", "u", "m", "a", " ",
      "c", "a", "n", "ç", "ã", "o", " ", "n", "a", " ", "H", "i", "s", "t", "ó", "r",
      "i", "a", ".">>
PROGRAM_IMAGE ==
    <<"h", "t", "t", "p", "s", ":", "/", "/", "c", "d", "n", "-", "i", "m", "a", "g",
      "e", "s", ".", "r", "t", "p", ".", "p", "t", "/", "E", "P", "G", "/", "r", "a",
      "d", "i", "o", "/", "i", "m", "a", "g", "e", "n", "s", "/", "7", "2", "9", "0",
      "_", "1", "0", "8", "8", "6", "_", "1", "0", "2", "2", "3", ".", "j", "p", "g">>
BASE_URL ==
    <<"h", "t", "t", "p", "s", ":", "/", "/", "w", "w", "w", ".", "r", "t", "p", ".",
      "p", "t">>
(* PROGRAM_URL = f"https://www.rtp.pt/play/{PROGRAM_ID}/{PROGRAM_SLUG}" *)
PROGRAM_URL ==
    <<"h", "t", "t", "p", "s", ":", "/", "/", "w", "w", "w", ".", "r", "t", "p", ".",
      "p", "t", "/", "p", "l", "a", "y", "/">> \o PROGRAM_ID \o <<"/">> \o PROGRAM_SLUG
PROGRAM_CATEGORY ==
    <<"M", "u", "s", "i", "c">>
PROGRAM_LANGUAGE ==
    <<"p", "t">>
CHANNEL ==
    <<"A", "n", "t", "e", "n", "a", "1">>
FEED_SELF_URL ==
    <<"h", "t", "t", "p", "s", ":", "/", "/", "j", "a", "v", "i", "e", "r", "c", "u",
      "b", "r", "e", ".", "g", "i", "t", "h", "u", "b", ".", "i", "o", "/", "p", "a",
      "n", "f", "l", "e", "t", "o", "s", "-", "r", "s", "s", "/", "p", "a", "n", "f",
      "l", "e", "t", "o", "s", ".", "x", "m", "l">>

(* ---- Python str and int primitives ---- *)
None == <<"None">>

Whitespace == {" ", "\t", "\n"}

DigitChars == <<"0", "1", "2", "3", "4", "5", "6", "7", "8", "9">>

IsDigit(c) == \E d \in 1..10 : DigitChars[d] = c

DigitVal(c) == (CHOOSE d \in 1..10 : DigitChars[d] = c) - 1

UpperChars ==
    <<"A", "B", "C", "D", "E", "F", "G", "H", "I", "J", "K", "L", "M",
      "N", "O", "P", "Q", "R", "S", "T", "U", "V", "W", "X", "Y", "Z">>

LowerChars ==
    <<"a", "b", "c", "d", "e", "f", "g", "h", "i", "j", "k", "l", "m",
      "n", "o", "p", "q", "r", "s", "t", "u", "v", "w", "x", "y", "z">>

(* str.lower(), for the ASCII letters *)
lower(s) ==
    [k \in 1..Len(s) |->
        IF \E u \in 1..26 : UpperChars[u] = s[k]
        THEN LowerChars[CHOOSE u \in 1..26 : UpperChars[u] = s[k]]
        ELSE s[k]]

(* str.strip() *)
RECURSIVE lstrip(_)
lstrip(s) ==
    IF s # <<>> /\ Head(s) \in Whitespace THEN lstrip(Tail(s)) ELSE s

RECURSIVE rstrip(_)
rstrip(s) ==
    IF s # <<>> /\ s[Len(s)] \in Whitespace
    THEN rstrip(SubSeq(s, 1, Len(s) - 1))
    ELSE s

strip(s) == rstrip(lstrip(s))

(* str.replace(old, new) for a one-character old: every occurrence, left to
   right, and the text put in is not scanned again by the same call.  The
   text is cut in halves only to keep the evaluation shallow. *)
RECURSIVE replace(_, _, _)
replace(s, old, new) ==
    IF \A k \in 1..Len(s) : s[k] # old THEN s
    ELSE IF Len(s) = 1 THEN new
    ELSE LET half == Len(s) \div 2
         IN  replace(SubSeq(s, 1, half), old, new)
                 \o replace(SubSeq(s, half + 1, Len(s)), old, new)

(* str.split() with no separator: the maximal runs of non-whitespace *)
RECURSIVE SplitAcc(_, _, _)
SplitAcc(s, cur, acc) ==
    IF s = <<>> THEN (IF cur = <<>> THEN acc ELSE Append(acc, cur))
    ELSE IF Head(s) \in Whitespace
         THEN SplitAcc(Tail(s), <<>>, IF cur = <<>> THEN acc ELSE Append(acc, cur))
         ELSE SplitAcc(Tail(s), Append(cur, Head(s)), acc)

split(s) == SplitAcc(s, <<>>, <<>>)

(* the value of a run of decimal digits *)
RECURSIVE DecVal(_)
DecVal(ds) ==
    IF ds = <<>> THEN 0
    ELSE 10 * DecVal(SubSeq(ds, 1, Len(ds) - 1)) + DigitVal(ds[Len(ds)])

(* int(str): an optional sign and at least one digit, ValueError otherwise *)
int(tok) ==
    LET signed == tok # <<>> /\ Head(tok) \in {"+", "-"}
        body == IF signed THEN Tail(tok) ELSE tok
    IN  IF body # <<>> /\ \A k \in 1..Len(body) : IsDigit(body[k])
        THEN [ok |-> TRUE,
              val |-> IF signed /\ Head(tok) = "-" THEN 0 - DecVal(body) ELSE DecVal(body)]
        ELSE [ok |-> FALSE, exc |-> "ValueError"]

(* str(n) and the format spec :02d, for n >= 0 *)
RECURSIVE Dec(_)
Dec(n) ==
    IF n < 10 THEN <<DigitChars[n + 1]>>
    ELSE Dec(n \div 10) \o <<DigitChars[(n % 10) + 1]>>

Pad2(n) == IF n < 10 THEN <<"0">> \o Dec(n) ELSE Dec(n)

(* the index of the first place >= k of s that is not a digit (Len(s)+1 if none) *)
RECURSIVE DigitsEnd(_, _)
DigitsEnd(s, k) ==
    IF k <= Len(s) /\ IsDigit(s[k]) THEN DigitsEnd(s, k + 1) ELSE k

(* the index of the first place >= k of s that is not whitespace *)
RECURSIVE SpaceEnd(_, _)
SpaceEnd(s, k) ==
    IF k <= Len(s) /\ s[k] \in Whitespace THEN SpaceEnd(s, k + 1) ELSE k

(* whether lit occurs in s at place k *)
StartsAt(s, k, lit) ==
    /\ k + Len(lit) - 1 <= Len(s)
    /\ \A j \in 1..Len(lit) : s[k + j - 1] = lit[j]

(* ---- Dates ---- *)
(* the instants datetime.now() may return during a run *)
Clocks ==
    {[year |-> 2026, month |-> 2, day |-> 12, hour |-> 9, minute |-> 30, second |-> 15]}

PT_MONTHS ==
    (<<"j", "a", "n">> :> 1) @@ (<<"f", "e", "v">> :> 2) @@ (<<"m", "a", "r">> :> 3) @@
    (<<"a", "b", "r">> :> 4) @@ (<<"m", "a", "i">> :> 5) @@ (<<"j", "u", "n">> :> 6) @@
    (<<"j", "u", "l">> :> 7) @@ (<<"a", "g", "o">> :> 8) @@ (<<"s", "e", "t">> :> 9) @@
    (<<"o", "u", "t">> :> 10) @@ (<<"n", "o", "v">> :> 11) @@ (<<"d", "e", "z">> :> 12)

IsLeap(year) == year % 4 = 0 /\ (year % 100 # 0 \/ year % 400 = 0)

DaysInMonth(year, month) ==
    IF month = 2 THEN (IF IsLeap(year) THEN 29 ELSE 28)
    ELSE IF month \in {4, 6, 9, 11} THEN 30 ELSE 31

(* datetime(year, month, day, hour, minute, second): ValueError when the year
   is outside 1..9999 or the day is not a day of that month *)
datetime(year, month, day, hour, minute, second) ==
    IF /\ year \in 1..9999
       /\ month \in 1..12
       /\ day >= 1
       /\ day <= DaysInMonth(year, month)
    THEN [ok |-> TRUE,
          val |-> [year |-> year, month |-> month, day |-> day,
                   hour |-> hour, minute |-> minute, second |-> second]]
    ELSE [ok |-> FALSE, exc |-> "ValueError"]

(* datetime.weekday(): Monday is 0 *)
weekday(dt) ==
    LET t == <<0, 3, 2, 5, 0, 3, 5, 1, 4, 6, 2, 4>>
        y == IF dt.month < 3 THEN dt.year - 1 ELSE dt.year
        sunday0 == (y + (y \div 4) - (y \div 100) + (y \div 400) + t[dt.month] + dt.day) % 7
    IN  (sunday0 + 6) % 7

(* parse_pt_date(date_str); clock is what datetime.now() returns *)
parse_pt_date(date_str, clock) ==
    LET parts == split(strip(replace(strip(date_str), ".", <<>>)))
    IN  IF Len(parts) = 3
        THEN LET day == int(parts[1])
                 month == IF lower(parts[2]) \in DOMAIN PT_MONTHS
                          THEN PT_MONTHS[lower(parts[2])]
                          ELSE 1
                 year == int(parts[3])
             IN  IF ~day.ok THEN day
                 ELSE IF ~year.ok THEN year
                 ELSE datetime(year.val, month, day.val, 12, 0, 0)
        ELSE [ok |-> TRUE, val |-> clock]

(* the leftmost match of (\d+)\s*min in s: its group 1, or None *)
RECURSIVE SearchMin(_, _)
SearchMin(s, k) ==
    IF k > Len(s) THEN None
    ELSE IF /\ IsDigit(s[k])
            /\ StartsAt(s, SpaceEnd(s, DigitsEnd(s, k)), <<"m", "i", "n">>)
         THEN SubSeq(s, k, DigitsEnd(s, k) - 1)
         ELSE SearchMin(s, k + 1)

(* parse_duration(dur_str) *)
parse_duration(dur_str) ==
    LET s == lower(strip(dur_str))
        match == SearchMin(s, 1)
    IN  IF match # None THEN DecVal(match) * 60 ELSE 0

(* format_rfc822(dt) *)
format_rfc822(dt) ==
    LET days == <<"Mon", "Tue", "Wed", "Thu", "Fri", "Sat", "Sun">>
        months == <<"Jan", "Feb", "Mar", "Apr", "May", "Jun",
                    "Jul", "Aug", "Sep", "Oct", "Nov", "Dec">>
    IN  <<days[weekday(dt) + 1], ", ">> \o Pad2(dt.day) \o <<" ", months[dt.month], " ">>
        \o Dec(dt.year) \o <<" ">> \o Pad2(dt.hour) \o <<":">> \o Pad2(dt.minute)
        \o <<":">> \o Pad2(dt.second) \o <<" +0000">>

(* A faulty variant of format_itunes_duration: the minutes are not reduced
   modulo the hour (m = seconds // 60). *)
format_itunes_duration_total_minutes(seconds) ==
    LET h == seconds \div 3600
        m == seconds \div 60
        s == seconds % 60
    IN  IF h > 0
        THEN Pad2(h) \o <<":">> \o Pad2(m) \o <<":">> \o Pad2(s)
        ELSE Pad2(m) \o <<":">> \o Pad2(s)

(* format_itunes_duration(seconds) *)
format_itunes_duration(seconds) ==
    LET h == seconds \div 3600
        m == (seconds % 3600) \div 60
        s == seconds % 60
    IN  IF h > 0
        THEN Pad2(h) \o <<":">> \o Pad2(m) \o <<":">> \o Pad2(s)
        ELSE Pad2(m) \o <<":">> \o Pad2(s)

(* ---- Scraping ---- *)
(* re.search of ep_pattern, rf"/play/{PROGRAM_ID}/e(\d+)/{PROGRAM_SLUG}", in
   href from place k on: group 1 of the leftmost match, or None *)
RECURSIVE ep_pattern_search(_, _)
ep_pattern_search(href, k) ==
    LET prefix == <<"/", "p", "l", "a", "y", "/">> \o PROGRAM_ID \o <<"/", "e">>
        d0 == k + Len(prefix)
        d1 == DigitsEnd(href, d0)
    IN  IF k > Len(href) THEN None
        ELSE IF /\ StartsAt(href, k, prefix)
                /\ d1 > d0
                /\ StartsAt(href, d1, <<"/">> \o PROGRAM_SLUG)
             THEN SubSeq(href, d0, d1 - 1)
             ELSE ep_pattern_search(href, k + 1)

(* link.get_text(strip=True): the stripped strings of the anchor, joined *)
RECURSIVE get_text(_)
get_text(strings) ==
    IF strings = <<>> THEN <<>> ELSE Head(strings) \o get_text(Tail(strings))

(* One pass of the loop of lines 130-158 per anchor of the page.  An anchor
   is [href, strings]: its href attribute and list(link.stripped_strings).
   find_all("a", href=ep_pattern) keeps the anchors whose href the pattern
   matches somewhere.  An exception of parse_pt_date() leaves the loop. *)
RECURSIVE ScrapeLoop(_, _, _)
ScrapeLoop(links, clock, acc) ==
    IF links = <<>> THEN [ok |-> TRUE, val |-> acc]
    ELSE LET link == Head(links)
             href == link.href
             episode_id == ep_pattern_search(href, 1)
             title_text == get_text(link.strings)
             parts == [k \in 1..Len(link.strings) |-> strip(link.strings[k])]
             title == IF parts # <<>> THEN parts[1] ELSE title_text
             date_str == IF Len(parts) > 1 THEN parts[2] ELSE <<>>
             duration_str == IF Len(parts) > 2 THEN parts[3] ELSE <<>>
             ep_date == IF date_str # <<>> THEN parse_pt_date(date_str, clock)
                        ELSE [ok |-> TRUE, val |-> clock]
             duration_secs == IF duration_str # <<>> THEN parse_duration(duration_str)
                              ELSE 0
         IN  IF episode_id = None THEN ScrapeLoop(Tail(links), clock, acc)
             ELSE IF ~ep_date.ok THEN ep_date
             ELSE ScrapeLoop(Tail(links), clock,
                     Append(acc, [title |-> title,
                                  date |-> ep_date.val,
                                  duration |-> duration_secs,
                                  url |-> BASE_URL \o href,
                                  episode_id |-> episode_id]))

(* scrape_episodes_from_html(html_content); html_content is the sequence of the
   anchors of the parsed markup, in document order *)
scrape_episodes_from_html(html_content, clock) == ScrapeLoop(html_content, clock, <<>>)

(* ---- Audio resolution ---- *)
(* extract_audio_url(episode_url).  env is the set of importable modules;
   info is what ydl.extract_info() does: kind "raises" (any Exception),
   "none" (returns None) or "dict" (returns a dict whose .get("url") is
   info.url: None when the key is missing).  The import of line 99 is outside
   the try block of lines 107-113. *)
extract_audio_url(episode_url, env, info) ==
    IF "yt_dlp" \notin env THEN [ok |-> FALSE, exc |-> "ImportError"]
    ELSE IF info.kind = "raises" THEN [ok |-> TRUE, val |-> None]
    ELSE IF info.kind = "dict" /\ info.url # None /\ info.url # <<>>
         THEN [ok |-> TRUE, val |-> info.url]
         ELSE [ok |-> TRUE, val |-> None]

(* ---- Rendering ---- *)
(* A faulty variant of xml_escape: the ampersand is replaced last, so the
   ampersands of the four entities written before it are escaped again. *)
xml_escape_ampersand_last(text) ==
    replace(
        replace(
            replace(
                replace(
                    replace(text, "<", <<"&", "l", "t", ";">>),
                    ">", <<"&", "g", "t", ";">>),
                "\"", <<"&", "q", "u", "o", "t", ";">>),
            "'", <<"&", "a", "p", "o", "s", ";">>),
        "&", <<"&", "a", "m", "p", ";">>)

(* xml_escape(text): five replace() calls, one after the other *)
xml_escape(text) ==
    replace(
        replace(
            replace(
                replace(
                    replace(text, "&", <<"&", "a", "m", "p", ";">>),
                    "<", <<"&", "l", "t", ";">>),
                ">", <<"&", "g", "t", ";">>),
            "\"", <<"&", "q", "u", "o", "t", ";">>),
        "'", <<"&", "a", "p", "o", "s", ";">>)

(* ep.get("audio_url") *)
get_audio_url(ep) == IF "audio_url" \in DOMAIN ep THEN ep.audio_url ELSE None

(* the truth value of a str or None *)
Truthy(v) == v # None /\ v # <<>>

(* lines 209-235: the channel block *)
ChannelLines(clock) == <<
    <<"<?xml version=\"1.0\" encoding=\"UTF-8\"?>">>,
    <<"<rss version=\"2.0\"">>,
    <<"  xmlns:itunes=\"http://www.itunes.com/dtds/podcast-1.0.dtd\"">>,
    <<"  xmlns:atom=\"http://www.w3.org/2005/Atom\">">>,
    <<"  <channel>">>,
    <<"    <title>">> \o xml_escape(PROGRAM_TITLE) \o <<"</title>">>,
    <<"    <link>">> \o PROGRAM_URL \o <<"</link>">>,
    <<"    <description>">> \o xml_escape(PROGRAM_DESCRIPTION) \o <<"</description>">>,
    <<"    <language>">> \o PROGRAM_LANGUAGE \o <<"</language>">>,
    <<"    <copyright>© RTP - Rádio e Televisão de Portugal</copyright>">>,
    <<"    <lastBuildDate>">> \o format_rfc822(clock) \o <<"</lastBuildDate>">>,
    <<"    <generator>Panfletos RSS Generator</generator>">>,
    <<"    <atom:link href=\"">> \o FEED_SELF_URL
        \o <<"\" rel=\"self\" type=\"application/rss+xml\"/>">>,
    <<"    <itunes:author>">> \o xml_escape(PROGRAM_AUTHOR) \o <<"</itunes:author>">>,
    <<"    <itunes:summary>">> \o xml_escape(PROGRAM_DESCRIPTION) \o <<"</itunes:summary>">>,
    <<"    <itunes:type>episodic</itunes:type>">>,
    <<"    <itunes:explicit>false</itunes:explicit>">>,
    <<"    <itunes:owner>">>,
    <<"      <itunes:name>">> \o xml_escape(PROGRAM_AUTHOR) \o <<"</itunes:name>">>,
    <<"    </itunes:owner>">>,
    <<"    <itunes:category text=\"">> \o PROGRAM_CATEGORY \o <<"\"/>">>,
    <<"    <image>">>,
    <<"      <url>">> \o PROGRAM_IMAGE \o <<"</url>">>,
    <<"      <title>">> \o xml_escape(PROGRAM_TITLE) \o <<"</title>">>,
    <<"      <link>">> \o PROGRAM_URL \o <<"</link>">>,
    <<"    </image>">>,
    <<"    <itunes:image href=\"">> \o PROGRAM_IMAGE \o <<"\"/>">> >>

(* A faulty variant of EnclosureLines: the test is on the presence of the
   key (if "audio_url" in ep), not on the value. *)
EnclosureLinesWhenKeyPresent(ep) ==
    IF "audio_url" \in DOMAIN ep
    THEN << <<"      <enclosure url=\"">> \o xml_escape(ep.audio_url)
                \o <<"\" length=\"0\" type=\"audio/mpeg\"/>">> >>
    ELSE <<>>

(* lines 244-246: the enclosure line of an item, or no line *)
EnclosureLines(ep) ==
    LET audio_url == get_audio_url(ep)
    IN  IF Truthy(audio_url)
        THEN << <<"      <enclosure url=\"">> \o xml_escape(audio_url)
                    \o <<"\" length=\"0\" type=\"audio/mpeg\"/>">> >>
        ELSE <<>>

(* lines 247-248: the duration line of an item, or no line *)
DurationLines(ep) ==
    IF ep.duration > 0
    THEN << <<"      <itunes:duration>">> \o format_itunes_duration(ep.duration)
                \o <<"</itunes:duration>">> >>
    ELSE <<>>

(* lines 238-251: the lines of one item *)
ItemLines(ep) ==
    << <<"    <item>">>,
       <<"      <title>">> \o xml_escape(ep.title) \o <<"</title>">>,
       <<"      <link>">> \o ep.url \o <<"</link>">>,
       <<"      <guid isPermaLink=\"false\">", "rtp-panfletos-e">> \o ep.episode_id \o <<"</guid>">>,
       <<"      <pubDate>">> \o format_rfc822(ep.date) \o <<"</pubDate>">>,
       <<"      <description>">> \o xml_escape(ep.title) \o <<" - ">>
           \o xml_escape(PROGRAM_TITLE) \o <<" com ">> \o xml_escape(PROGRAM_AUTHOR)
           \o <<" na ">> \o CHANNEL \o <<".</description>">> >>
    \o EnclosureLines(ep)
    \o DurationLines(ep)
    \o << <<"      <itunes:author>">> \o xml_escape(PROGRAM_AUTHOR) \o <<"</itunes:author>">>,
          <<"      <itunes:summary>">> \o xml_escape(ep.title)
              \o <<" - Panfletos: música-política, canções-poder, criatividade-resistência.</itunes:summary>">>,
          <<"    </item>">> >>

(* A faulty variant of AllItemLines: the items come out newest last, in the
   reverse of the order of the list. *)
RECURSIVE AllItemLinesReversed(_)
AllItemLinesReversed(eps) ==
    IF eps = <<>> THEN <<>> ELSE AllItemLinesReversed(Tail(eps)) \o ItemLines(Head(eps))

(* the loop of line 237: the items in the order of the list *)
RECURSIVE AllItemLines(_)
AllItemLines(eps) ==
    IF eps = <<>> THEN <<>> ELSE ItemLines(Head(eps)) \o AllItemLines(Tail(eps))

(* '\n'.join(lines); the list is cut in halves only to keep the evaluation
   shallow *)
RECURSIVE join(_)
join(lines) ==
    IF lines = <<>> THEN <<>>
    ELSE IF Len(lines) = 1 THEN lines[1]
    ELSE LET half == Len(lines) \div 2
         IN  join(SubSeq(lines, 1, half)) \o <<"\n">> \o join(SubSeq(lines, half + 1, Len(lines)))

(* ChannelLines, tabulated once per instant *)
ChannelTable == [clock \in Clocks |-> ChannelLines(clock)]

(* generate_rss(episodes); clock is what datetime.now() returns *)
generate_rss(eps, clock) ==
    join(ChannelTable[clock] \o AllItemLines(eps) \o << <<"  </channel>">>, <<"</rss>">> >>)

(* The literal episode list of generate_feed_from_hardcoded_data(); the records
   carry no audio_url key. *)
HardcodedEpisodes == <<
    [title |-> <<"C", "a", "r", "a", " ", "d", "e", " ", "E", "s", "p", "e", "l", "h",
               "o", " ", "e", " ", "\"", "A", " ", "S", "e", "i", "t", "a", "\"">>,
     date |-> [year |-> 2026, month |-> 2, day |-> 11, hour |-> 12, minute |-> 0, second |-> 0],
     duration |-> 420,
     url |-> BASE_URL \o <<"/", "p", "l", "a", "y", "/">> \o PROGRAM_ID \o <<"/", "e">> \o <<"9", "0", "8", "2", "2", "9">> \o <<"/">> \o PROGRAM_SLUG,
     episode_id |-> <<"9", "0", "8", "2", "2", "9">>],
    [title |-> <<"B", "a", "d", " ", "B", "u", "n", "n", "y", " ", "e", " ", "\"", "D",
               "t", "M", "F", "\"">>,
     date |-> [year |-> 2026, month |-> 2, day |-> 10, hour |-> 12, minute |-> 0, second |-> 0],
     duration |-> 420,
     url |-> BASE_URL \o <<"/", "p", "l", "a", "y", "/">> \o PROGRAM_ID \o <<"/", "e">> \o <<"9", "0", "7", "9", "6", "6">> \o <<"/">> \o PROGRAM_SLUG,
     episode_id |-> <<"9", "0", "7", "9", "6", "6">>],
    [title |-> <<"M", "o", "o", "n", "s", "p", "e", "l", "l", " ", "e", " ", "\"", "D",
               "e", "s", "a", "s", "t", "r", "e", "\"">>,
     date |-> [year |-> 2026, month |-> 2, day |-> 9, hour |-> 12, minute |-> 0, second |-> 0],
     duration |-> 420,
     url |-> BASE_URL \o <<"/", "p", "l", "a", "y", "/">> \o PROGRAM_ID \o <<"/", "e">> \o <<"9", "0", "7", "7", "5", "1">> \o <<"/">> \o PROGRAM_SLUG,
     episode_id |-> <<"9", "0", "7", "7", "5", "1">>],
    [title |-> <<"S", "e", "m", "a", "n", "a", " ", "d", "e", " ", "0", "2", " ", "a",
               " ", "0", "6", " ", "d", "e", " ", "F", "e", "v", "e", "r", "e", "i",
               "r", "o", " ", "d", "e", " ", "2", "0", "2", "6">>,
     date |-> [year |-> 2026, month |-> 2, day |-> 7, hour |-> 12, minute |-> 0, second |-> 0],
     duration |-> 1620,
     url |-> BASE_URL \o <<"/", "p", "l", "a", "y", "/">> \o PROGRAM_ID \o <<"/", "e">> \o <<"9", "0", "7", "7", "4", "0">> \o <<"/">> \o PROGRAM_SLUG,
     episode_id |-> <<"9", "0", "7", "7", "4", "0">>],
    [title |-> <<"C", "a", "r", "l", "o", "s", " ", "P", "a", "r", "e", "d", "e", "s",
               " ", "e", " ", "\"", "V", "e", "r", "d", "e", "s", " ", "A", "n", "o",
               "s", "\"">>,
     date |-> [year |-> 2026, month |-> 2, day |-> 6, hour |-> 12, minute |-> 0, second |-> 0],
     duration |-> 420,
     url |-> BASE_URL \o <<"/", "p", "l", "a", "y", "/">> \o PROGRAM_ID \o <<"/", "e">> \o <<"9", "0", "7", "2", "5", "4">> \o <<"/">> \o PROGRAM_SLUG,
     episode_id |-> <<"9", "0", "7", "2", "5", "4">>],
    [title |-> <<"V", "e", "r", "d", "i", " ", "e", " ", "o", " ", "c", "o", "r", "o",
               " ", "d", "o", "s", " ", "e", "s", "c", "r", "a", "v", "o", "s", " ",
               "h", "e", "b", "r", "e", "u", "s">>,
     date |-> [year |-> 2026, month |-> 2, day |-> 5, hour |-> 12, minute |-> 0, second |-> 0],
     duration |-> 420,
     url |-> BASE_URL \o <<"/", "p", "l", "a", "y", "/">> \o PROGRAM_ID \o <<"/", "e">> \o <<"9", "0", "7", "0", "1", "0">> \o <<"/">> \o PROGRAM_SLUG,
     episode_id |-> <<"9", "0", "7", "0", "1", "0">>],
    [title |-> <<"B", "i", "l", "l", "y", " ", "B", "r", "a", "g", "g", " ", "e", " ",
               "\"", "C", "i", "t", "y", " ", "o", "f", " ", "H", "e", "r", "o", "e",
               "s", "\"">>,
     date |-> [year |-> 2026, month |-> 2, day |-> 4, hour |-> 12, minute |-> 0, second |-> 0],
     duration |-> 420,
     url |-> BASE_URL \o <<"/", "p", "l", "a", "y", "/">> \o PROGRAM_ID \o <<"/", "e">> \o <<"9", "0", "6", "7", "4", "6">> \o <<"/">> \o PROGRAM_SLUG,
     episode_id |-> <<"9", "0", "6", "7", "4", "6">>],
    [title |-> <<"N", "i", "c", "k", "i", " ", "M", "i", "n", "a", "j", " ", "e", " ",
               "\"", "B", "l", "a", "c", "k", " ", "B", "a", "r", "b", "i", "e", "s",
               "\"">>,
     date |-> [year |-> 2026, month |-> 2, day |-> 3, hour |-> 12, minute |-> 0, second |-> 0],
     duration |-> 420,
     url |-> BASE_URL \o <<"/", "p", "l", "a", "y", "/">> \o PROGRAM_ID \o <<"/", "e">> \o <<"9", "0", "6", "4", "6", "1">> \o <<"/">> \o PROGRAM_SLUG,
     episode_id |-> <<"9", "0", "6", "4", "6", "1">>],
    [title |-> <<"B", "r", "u", "c", "e", " ", "S", "p", "r", "i", "n", "g", "s", "t",
               "e", "e", "n", " ", "e", " ", "\"", "S", "t", "r", "e", "e", "t", "s",
               " ", "o", "f", " ", "M", "i", "n", "n", "e", "a", "p", "o", "l", "i",
               "s", "\"">>,
     date |-> [year |-> 2026, month |-> 2, day |-> 2, hour |-> 12, minute |-> 0, second |-> 0],
     duration |-> 420,
     url |-> BASE_URL \o <<"/", "p", "l", "a", "y", "/">> \o PROGRAM_ID \o <<"/", "e">> \o <<"9", "0", "6", "2", "0", "3">> \o <<"/">> \o PROGRAM_SLUG,
     episode_id |-> <<"9", "0", "6", "2", "0", "3">>],
    [title |-> <<"S", "e", "m", "a", "n", "a", " ", "d", "e", " ", "2", "6", " ", "a",
               " ", "3", "0", " ", "d", "e", " ", "J", "a", "n", "e", "i", "r", "o",
               " ", "d", "e", " ", "2", "0", "2", "6">>,
     date |-> [year |-> 2026, month |-> 1, day |-> 31, hour |-> 12, minute |-> 0, second |-> 0],
     duration |-> 1920,
     url |-> BASE_URL \o <<"/", "p", "l", "a", "y", "/">> \o PROGRAM_ID \o <<"/", "e">> \o <<"9", "0", "5", "7", "6", "5">> \o <<"/">> \o PROGRAM_SLUG,
     episode_id |-> <<"9", "0", "5", "7", "6", "5">>],
    [title |-> <<"D", "i", "n", "o", " ", "d", "'", "S", "a", "n", "t", "i", "a", "g",
               "o", " ", "e", " ", "\"", "U", "t", "o", "p", "i", "a", "\"">>,
     date |-> [year |-> 2026, month |-> 1, day |-> 30, hour |-> 12, minute |-> 0, second |-> 0],
     duration |-> 420,
     url |-> BASE_URL \o <<"/", "p", "l", "a", "y", "/">> \o PROGRAM_ID \o <<"/", "e">> \o <<"9", "0", "5", "7", "1", "2">> \o <<"/">> \o PROGRAM_SLUG,
     episode_id |-> <<"9", "0", "5", "7", "1", "2">>],
    [title |-> <<"P", "e", "d", "r", "o", " ", "A", "b", "r", "u", "n", "h", "o", "s",
               "a", " ", "e", " ", "\"", "O", "x", "a", "l", "á", " ", "o", " ", "m",
               "e", "u", " ", "v", "e", "s", "t", "i", "d", "o", " ", "a", "i", "n",
               "d", "a", " ", "s", "e", " ", "l", "e", "m", "b", "r", "e", " ", "d",
               "e", " ", "m", "i", "m", "\"">>,
     date |-> [year |-> 2026, month |-> 1, day |-> 29, hour |-> 12, minute |-> 0, second |-> 0],
     duration |-> 420,
     url |-> BASE_URL \o <<"/", "p", "l", "a", "y", "/">> \o PROGRAM_ID \o <<"/", "e">> \o <<"9", "0", "5", "4", "2", "6">> \o <<"/">> \o PROGRAM_SLUG,
     episode_id |-> <<"9", "0", "5", "4", "2", "6">>] >>

(* generate_rss(episodes) of line 278, tabulated once per instant *)
HardcodedFeed == [clock \in Clocks |-> generate_rss(HardcodedEpisodes, clock)]

(* generate_feed_from_hardcoded_data() *)
generate_feed_from_hardcoded_data(clock) == HardcodedFeed[clock]

(* ---- The inputs of a run ---- *)
ThirdParty == {"requests", "bs4", "yt_dlp"}

(* href attributes: two episode paths, an episode path with a query string,
   and the programme's own path, which ep_pattern does not match *)
EpisodePath(digits) ==
    <<"/", "p", "l", "a", "y", "/", "p", "8", "3", "3", "9", "/", "e">> \o digits
        \o <<"/", "p", "a", "n", "f", "l", "e", "t", "o", "s">>

Hrefs ==
    { EpisodePath(<<"1">>),
      EpisodePath(<<"2", "2">>),
      EpisodePath(<<"1">>) \o <<"?", "a", "=", "1", "&", "b", "=", "2">>,
      <<"/", "p", "l", "a", "y", "/", "p", "8", "3", "3", "9", "/",
        "p", "a", "n", "f", "l", "e", "t", "o", "s">> }

Titles == { <<"T">>, <<"A", " ", "&", " ", "B">> }

GoodDateStrings ==
    { <<"1", "1", " ", "f", "e", "v", ".", " ", "2", "0", "2", "6">>,
      <<"2", "0", "2", "6">> }

BadDateStrings ==
    { <<"3", "1", " ", "f", "e", "v", ".", " ", "2", "0", "2", "6">>,
      <<"x", "x", " ", "f", "e", "v", ".", " ", "2", "0", "2", "6">> }

DateStrings == GoodDateStrings \cup BadDateStrings

DurationStrings == { <<"2", "7", " ", "M", "i", "n">>, <<"x">> }

(* list(link.stripped_strings): nothing, a title, a title and a date, or a
   title, a date and a duration *)
Fragments ==
    {<<>>}
    \cup { <<t>> : t \in Titles }
    \cup { <<<<"T">>, d>> : d \in DateStrings }
    \cup { <<<<"T">>, d, u>> : d \in GoodDateStrings, u \in DurationStrings }

Anchors ==
    { [href |-> h, strings |-> <<<<"T">>>>] : h \in Hrefs }
    \cup { [href |-> EpisodePath(<<"1">>), strings |-> s] : s \in Fragments }

RECURSIVE SeqsUpTo(_, _)
SeqsUpTo(S, n) ==
    IF n = 0 THEN {<<>>}
    ELSE LET shorter == SeqsUpTo(S, n - 1)
         IN  shorter \cup { Append(q, x) : q \in { r \in shorter : Len(r) = n - 1 }, x \in S }

(* the anchors of the page requests.get() returns *)
Pages == SeqsUpTo(Anchors, MaxLinks)

(* what requests.get() / raise_for_status() do: raise, or hand back a page *)
Responses ==
    { [kind |-> "error", page |-> <<>>] } \cup { [kind |-> "page", page |-> p] : p \in Pages }

(* what ydl.extract_info() does: raise, return a dict without a url, return
   a dict with one *)
Infos ==
    { [kind |-> "raises", url |-> None],
      [kind |-> "dict", url |-> None],
      [kind |-> "dict", url |-> <<"/", "/", "a", "/", "1", "?", "x", "&", "y">>] }

(* ---- fetch_episodes_online() and main() ---- *)
NoPage == [received |-> FALSE, anchors |-> <<>>]

(* lines 165-180: the imports, the request and the scraping *)
fetch_and_scrape(env, resp, clock) ==
    IF "requests" \notin env THEN [ok |-> FALSE, exc |-> "ImportError"]
    ELSE IF resp.kind = "error" THEN [ok |-> FALSE, exc |-> "RequestException"]
    ELSE IF "bs4" \notin env THEN [ok |-> FALSE, exc |-> "ImportError"]
    ELSE scrape_episodes_from_html(resp.page, clock)

(* line 185: ep["audio_url"] = ... *)
set_audio_url(ep, v) ==
    [f \in DOMAIN ep \cup {"audio_url"} |-> IF f = "audio_url" THEN v ELSE ep[f]]

(* A faulty variant of render_fetched: the test of line 303 is missing, and
   an empty list is rendered as it is. *)
render_fetched_without_fallback(eps, clock) == generate_rss(eps, clock)

(* lines 303-307: what main() renders from the list fetch_episodes_online()
   returned *)
render_fetched(eps, clock) ==
    IF eps = <<>> THEN generate_feed_from_hardcoded_data(clock)
    ELSE generate_rss(eps, clock)

(* lines 308-311: the except branch of main() *)
ExceptBranch(e) ==
    /\ exc' = e
    /\ xml_content' = generate_feed_from_hardcoded_data(now)
    /\ pc' = "write"

Init ==
    /\ pc = "start"
    /\ offline \in BOOLEAN
    /\ now \in Clocks
    /\ modules \in SUBSET ThirdParty
    /\ page = NoPage
    /\ episodes = <<>>
    /\ i = 0
    /\ calls = <<>>
    /\ exc = "none"
    /\ xml_content = None
    /\ out_file = None
    /\ call = [fn |-> "none"]

(* line 297: args.offline *)
CanOffline == pc = "start" /\ offline

(* lines 297-299: --offline *)
Offline ==
    /\ CanOffline
    /\ xml_content' = generate_feed_from_hardcoded_data(now)
    /\ pc' = "write"
    /\ UNCHANGED <<offline, now, modules, page, episodes, i, calls, exc, out_file, call>>

(* line 300: not args.offline *)
CanFetchAndScrape == pc = "start" /\ ~offline

(* lines 302 and 165-180: fetch_episodes_online() up to its loop *)
FetchAndScrape ==
    /\ CanFetchAndScrape
    /\ \E resp \in Responses :
          LET r == fetch_and_scrape(modules, resp, now)
          IN  /\ page' = IF "requests" \in modules /\ resp.kind = "page"
                         THEN [received |-> TRUE, anchors |-> resp.page]
                         ELSE page
              /\ IF r.ok
                 THEN /\ episodes' = r.val
                      /\ pc' = "resolve"
                      /\ UNCHANGED <<exc, xml_content>>
                 ELSE /\ ExceptBranch(r.exc)
                      /\ UNCHANGED episodes
    /\ UNCHANGED <<offline, now, modules, i, calls, out_file, call>>

(* line 183: the loop has an episode left *)
CanResolve == pc = "resolve" /\ i < Len(episodes)

(* line 183: the loop is over *)
CanRender == pc = "resolve" /\ i = Len(episodes)

(* line 313: xml_content is set *)
CanWriteFile == pc = "write"

(* lines 183-189: one pass of the loop; an exception that leaves
   extract_audio_url() leaves fetch_episodes_online() too *)
Resolve ==
    /\ CanResolve
    /\ \E info \in Infos :
          LET ep == episodes[i + 1]
              r == extract_audio_url(ep.url, modules, info)
          IN  /\ calls' = Append(calls, [pos |-> i + 1, result |-> r])
              /\ IF r.ok
                 THEN /\ episodes' = [episodes EXCEPT ![i + 1] = set_audio_url(ep, r.val)]
                      /\ i' = i + 1
                      /\ UNCHANGED <<pc, exc, xml_content>>
                 ELSE /\ ExceptBranch(r.exc)
                      /\ UNCHANGED <<episodes, i>>
    /\ UNCHANGED <<offline, now, modules, page, out_file, call>>

(* lines 191 and 303-307: the loop is over, the list goes back to main() *)
Render ==
    /\ CanRender
    /\ xml_content' = render_fetched(episodes, now)
    /\ pc' = "write"
    /\ UNCHANGED <<offline, now, modules, page, episodes, i, calls, exc, out_file, call>>

(* lines 313-314 *)
WriteFile ==
    /\ CanWriteFile
    /\ out_file' = xml_content
    /\ pc' = "done"
    /\ UNCHANGED <<offline, now, modules, page, episodes, i, calls, exc, xml_content, call>>

Next == Offline \/ FetchAndScrape \/ Resolve \/ Render \/ WriteFile

Spec == Init /\ [][Next]_vars

(* ---- The functions on their own ---- *)
(* A second specification applies one function of the script to one input:
   the initial state draws the call, the action of the function makes it. *)
EscapeAlphabet == {"&", "<", ">", "\"", "'", "a", ";"}

EscapeInputs == SeqsUpTo(EscapeAlphabet, MaxLen)

DateWords ==
    { <<"1", "1">>, <<"3", "1">>, <<"1", "x">>, <<"f", "e", "v", ".">>, <<"F", "E", "V">>,
      <<"x", "y", "z">>, <<"2", "0", "2", "6">>, <<".">> }

(* the words of ws, one space between them *)
RECURSIVE JoinWords(_)
JoinWords(ws) ==
    IF ws = <<>> THEN <<>>
    ELSE IF Len(ws) = 1 THEN ws[1]
    ELSE ws[1] \o <<" ">> \o JoinWords(Tail(ws))

DateInputs == { JoinWords(ws) : ws \in SeqsUpTo(DateWords, MaxTokens) }

SecondsInputs == (0..MaxSeconds) \cup {35999, 36000, 359999, 360000}

EpisodeDate == [year |-> 2026, month |-> 2, day |-> 11, hour |-> 12, minute |-> 0, second |-> 0]

(* episode records as the scraper and the resolver leave them: without the
   audio_url key, with audio_url None, with an audio URL *)
BareEpisodes ==
    { [title |-> t.title, date |-> EpisodeDate, duration |-> d,
       url |-> BASE_URL \o EpisodePath(t.id), episode_id |-> t.id] :
         t \in { [title |-> <<"T">>, id |-> <<"1">>],
                 [title |-> <<"A", " ", "&", " ", "B">>, id |-> <<"2", "2">>] },
         d \in {0, 420, 3720} }

EpisodeRecords ==
    BareEpisodes
    \cup { set_audio_url(ep, a) :
             ep \in BareEpisodes,
             a \in { None, <<"/", "/", "a", "/", "1", "?", "x", "&", "y">> } }

EpisodeLists == SeqsUpTo(EpisodeRecords, MaxEpisodes)

Pending(fn, arg) == [fn |-> fn, arg |-> arg, done |-> FALSE, res |-> <<>>]

FnInit ==
    /\ pc = "call"
    /\ offline = FALSE
    /\ now \in Clocks
    /\ modules = ThirdParty
    /\ page = NoPage
    /\ episodes = <<>>
    /\ i = 0
    /\ calls = <<>>
    /\ exc = "none"
    /\ xml_content = None
    /\ out_file = None
    /\ \/ \E s \in EscapeInputs : call = Pending("xml_escape", s)
       \/ \E s \in DateInputs : call = Pending("parse_pt_date", s)
       \/ \E n \in SecondsInputs : call = Pending("format_itunes_duration", n)
       \/ \E eps \in EpisodeLists : call = Pending("generate_rss", eps)
       \/ call = Pending("generate_feed_from_hardcoded_data", HardcodedEpisodes)

Return(res) ==
    /\ pc = "call"
    /\ ~call.done
    /\ call' = [call EXCEPT !.done = TRUE, !.res = res]
    /\ UNCHANGED <<pc, offline, now, modules, page, episodes, i, calls, exc, xml_content, out_file>>

CallXmlEscape ==
    /\ call.fn = "xml_escape"
    /\ Return(xml_escape(call.arg))

CallParsePtDate ==
    /\ call.fn = "parse_pt_date"
    /\ Return(parse_pt_date(call.arg, now))

CallFormatItunesDuration ==
    /\ call.fn = "format_itunes_duration"
    /\ Return(format_itunes_duration(call.arg))

CallGenerateRss ==
    /\ call.fn = "generate_rss"
    /\ Return(generate_rss(call.arg, now))

CallGenerateFeedFromHardcodedData ==
    /\ call.fn = "generate_feed_from_hardcoded_data"
    /\ Return(generate_feed_from_hardcoded_data(now))

FnNext ==
    \/ CallXmlEscape
    \/ CallParsePtDate
    \/ CallFormatItunesDuration
    \/ CallGenerateRss
    \/ CallGenerateFeedFromHardcodedData

FnSpec == FnInit /\ [][FnNext]_vars

(* ---- Reading a feed back ---- *)
(* the lines of a document: the runs between its "\n" atoms *)
RECURSIVE SplitLines(_)
SplitLines(doc) ==
    IF \A k \in 1..Len(doc) : doc[k] # "\n" THEN <<doc>>
    ELSE IF Len(doc) = 1 THEN << <<>>, <<>> >>
    ELSE LET half == Len(doc) \div 2
             L == SplitLines(SubSeq(doc, 1, half))
             R == SplitLines(SubSeq(doc, half + 1, Len(doc)))
         IN  SubSeq(L, 1, Len(L) - 1) \o << L[Len(L)] \o R[1] >> \o Tail(R)

RECURSIVE Ascending(_)
Ascending(S) ==
    IF S = {} THEN <<>>
    ELSE LET least == CHOOSE x \in S : \A y \in S : x <= y
         IN  <<least>> \o Ascending(S \ {least})

ItemOpens(lines) == Ascending({ k \in 1..Len(lines) : lines[k] = <<"    <item>">> })

ItemCloses(lines) == Ascending({ k \in 1..Len(lines) : lines[k] = <<"    </item>">> })

(* every <item> line is closed before the next one opens *)
WellNested(lines) ==
    LET o == ItemOpens(lines)
        c == ItemCloses(lines)
    IN  /\ Len(o) = Len(c)
        /\ \A j \in 1..Len(o) :
              /\ o[j] < c[j]
              /\ j < Len(o) => c[j] < o[j + 1]

(* the lines of each item of a document, in document order *)
ItemBlocks(doc) ==
    LET lines == SplitLines(doc)
        o == ItemOpens(lines)
        c == ItemCloses(lines)
    IN  [j \in 1..Len(o) |-> SubSeq(lines, o[j] + 1, c[j] - 1)]

(* the contents of the lines of block that start with the atom open and end
   with the atom close, in order *)
Elements(block, open, close) ==
    LET sel == SelectSeq(block, LAMBDA l : Len(l) >= 2 /\ l[1] = open /\ l[Len(l)] = close)
    IN  [j \in 1..Len(sel) |-> SubSeq(sel[j], 2, Len(sel[j]) - 1)]

Guids(block) == Elements(block, "      <guid isPermaLink=\"false\">", "</guid>")

Enclosures(block) ==
    Elements(block, "      <enclosure url=\"", "\" length=\"0\" type=\"audio/mpeg\"/>")

(* the number of lines of block that open an <enclosure> element *)
EnclosureLineCount(block) ==
    Cardinality({ k \in 1..Len(block) :
                    block[k] # <<>> /\ block[k][1] = "      <enclosure url=\"" })

Durations(block) == Elements(block, "      <itunes:duration>", "</itunes:duration>")

(* the character-by-character escape of the five reserved characters *)
EscapeChar(c) ==
    CASE c = "&" -> <<"&", "a", "m", "p", ";">>
      [] c = "<" -> <<"&", "l", "t", ";">>
      [] c = ">" -> <<"&", "g", "t", ";">>
      [] c = "\"" -> <<"&", "q", "u", "o", "t", ";">>
      [] c = "'" -> <<"&", "a", "p", "o", "s", ";">>
      [] OTHER -> <<c>>

RECURSIVE CharwiseEscape(_)
CharwiseEscape(s) ==
    IF s = <<>> THEN <<>> ELSE EscapeChar(Head(s)) \o CharwiseEscape(Tail(s))

Entities ==
    { <<"&", "a", "m", "p", ";">>, <<"&", "l", "t", ";">>, <<"&", "g", "t", ";">>,
      <<"&", "q", "u", "o", "t", ";">>, <<"&", "a", "p", "o", "s", ";">> }

(* no character of the data stands raw in the document: the one-character
   atoms <, >, " and ' do not occur, and every & starts an entity *)
WellEscaped(doc) ==
    \A k \in 1..Len(doc) :
        /\ doc[k] \notin {"<", ">", "\"", "'"}
        /\ doc[k] = "&" => \E e \in Entities : StartsAt(doc, k, e)

(* the fields of text between the atoms sep *)
RECURSIVE FieldAcc(_, _, _, _)
FieldAcc(s, sep, cur, acc) ==
    IF s = <<>> THEN Append(acc, cur)
    ELSE IF Head(s) = sep THEN FieldAcc(Tail(s), sep, <<>>, Append(acc, cur))
    ELSE FieldAcc(Tail(s), sep, Append(cur, Head(s)), acc)

Fields(text, sep) == FieldAcc(text, sep, <<>>, <<>>)

AllDigits(t) == t # <<>> /\ \A k \in 1..Len(t) : IsDigit(t[k])

(* text is n seconds as MM:SS (n under an hour) or HH:MM:SS: zero-padded
   fields, MM < 60, SS < 60, and the fields add up to n *)
IsDurationOf(text, n) ==
    LET f == Fields(text, ":")
        last == Len(f)
    IN  /\ Len(f) = IF n < 3600 THEN 2 ELSE 3
        /\ \A k \in 1..Len(f) : AllDigits(f[k])
        /\ Len(f[last]) = 2
        /\ Len(f[last - 1]) = 2
        /\ Len(f) = 3 => (Len(f[1]) = 2 \/ (Len(f[1]) > 2 /\ f[1][1] # "0"))
        /\ LET hh == IF Len(f) = 3 THEN DecVal(f[1]) ELSE 0
               mm == DecVal(f[last - 1])
               ss == DecVal(f[last])
           IN  /\ mm < 60
               /\ ss < 60
               /\ hh * 3600 + mm * 60 + ss = n

Rendering == call.fn \in {"generate_rss", "generate_feed_from_hardcoded_data"} /\ call.done

(* ---- The claims ---- *)

(* the list main() is to render: the hardcoded one when --offline is set, the
   fetch raised or the fetched list is empty, the fetched one otherwise *)
ExpectedFeed ==
    IF offline \/ exc # "none" \/ episodes = <<>>
    THEN HardcodedFeed[now]
    ELSE generate_rss(episodes, now)

(* C1: every run of main() reaches the write step with exactly one document:
   the rendering of the hardcoded list when --offline is set, the fetch raised
   or the fetched list is empty, the rendering of the fetched list otherwise;
   the document is the one written, and in every state before the write a
   step of main() can be taken. *)
C1_MainAlwaysWritesOneFeed ==
    /\ pc \in {"start", "resolve"} => xml_content = None /\ out_file = None
    /\ pc \in {"write", "done"} => xml_content = ExpectedFeed
    /\ pc = "write" => out_file = None
    /\ pc = "done" => out_file = xml_content
    /\ pc # "done" =>
          CanOffline \/ CanFetchAndScrape \/ CanResolve \/ CanRender \/ CanWriteFile

(* a run whose fetch returned an empty list and wrote the hardcoded feed *)
C1_Witness ==
    /\ pc = "done"
    /\ ~offline
    /\ exc = "none"
    /\ page.received
    /\ episodes = <<>>
    /\ out_file = HardcodedFeed[now]

ResolverFailed(r) == ~r.ok \/ r.val = None

(* C2: extract_audio_url() is invoked once per episode, in document order; a
   failure of it for one episode (any exception, no url) leaves that episode's
   audio_url None and never aborts the batch: once the loop has started, every
   episode is resolved and the list goes back to main(). *)
C2_ResolverFailureNeverAbortsTheBatch ==
    /\ Len(calls) <= Len(episodes)
    /\ \A k \in 1..Len(calls) :
          /\ calls[k].pos = k
          /\ ResolverFailed(calls[k].result) => get_audio_url(episodes[k]) = None
    /\ (pc \in {"write", "done"} /\ calls # <<>>) =>
          /\ exc = "none"
          /\ Len(calls) = Len(episodes)

MatchedAnchors(p) == SelectSeq(p, LAMBDA a : ep_pattern_search(a.href, 1) # None)

(* the date strings of Anchors that name a calendar day *)
WellFormedDateStrings == { <<"1", "1", " ", "f", "e", "v", ".", " ", "2", "0", "2", "6">> }

(* the duration strings of Anchors that name a number of minutes *)
WellFormedDurationStrings == { <<"2", "7", " ", "M", "i", "n">> }

(* C3: whatever the text fragments of the matched links are, the extraction
   raises nothing: no exception of it reaches main(), every matched link
   yields a record, and a record whose date (duration) fragment is absent or
   malformed has the current time as date (0 as duration). *)
C3_ExtractionNeverRaises ==
    (page.received /\ "bs4" \in modules) =>
        /\ exc # "ValueError"
        /\ LET m == MatchedAnchors(page.anchors)
           IN  /\ Len(episodes) = Len(m)
               /\ \A k \in 1..Len(m) :
                     /\ (Len(m[k].strings) < 2 \/ m[k].strings[2] \notin WellFormedDateStrings)
                            => episodes[k].date = now
                     /\ (Len(m[k].strings) < 3
                             \/ m[k].strings[3] \notin WellFormedDurationStrings)
                            => episodes[k].duration = 0

(* C4: generate_rss() emits exactly one <item> per record, in the order of the
   list, each with the guid "rtp-panfletos-e" followed by the record's
   episode_id; so does the rendering of the hardcoded list, and an empty list
   gives no item. *)
C4_OneItemPerRecordInOrder ==
    Rendering =>
        LET blocks == ItemBlocks(call.res)
        IN  /\ WellNested(SplitLines(call.res))
            /\ Len(blocks) = Len(call.arg)
            /\ \A k \in 1..Len(blocks) :
                  /\ Guids(blocks[k]) = << <<"rtp-panfletos-e">> \o call.arg[k].episode_id >>
                  /\ call.arg[k].episode_id # <<>>

(* two records with different ids, rendered as two items in their order *)
C4_Witness ==
    /\ call.fn = "generate_rss"
    /\ call.done
    /\ Len(call.arg) = 2
    /\ call.arg[1].episode_id = <<"2", "2">>
    /\ call.arg[2].episode_id = <<"1">>
    /\ Len(ItemBlocks(call.res)) = 2
    /\ Guids(ItemBlocks(call.res)[1]) = << <<"rtp-panfletos-e", "2", "2">> >>
    /\ Guids(ItemBlocks(call.res)[2]) = << <<"rtp-panfletos-e", "1">> >>

(* C5: no two records of the scraped list have the same episode_id, and no two
   items of the feed written have the same guid. *)
C5_EpisodeIdsUnique ==
    /\ \A j, k \in 1..Len(episodes) :
          j # k => episodes[j].episode_id # episodes[k].episode_id
    /\ pc = "done" =>
          LET blocks == ItemBlocks(out_file)
          IN  \A j, k \in 1..Len(blocks) : j # k => Guids(blocks[j]) # Guids(blocks[k])

(* C6: every value inserted in the feed is escaped: the document written has
   no raw <, >, " or ' from the data, and no & that does not start one of the
   five entities. *)
C6_EveryInsertedValueEscaped ==
    pc = "done" => WellEscaped(out_file)

(* C7: an item has no <enclosure> when the record's audio_url is unset (no key,
   or None) and exactly one, with the escaped audio URL, length "0" and type
   "audio/mpeg", when it is set; the items of the hardcoded list have none. *)
C7_EnclosureOnlyWhenAudioUrlSet ==
    Rendering =>
        LET blocks == ItemBlocks(call.res)
        IN  /\ Len(blocks) = Len(call.arg)
            /\ \A k \in 1..Len(blocks) :
                  LET audio_url == IF "audio_url" \in DOMAIN call.arg[k]
                                   THEN call.arg[k].audio_url
                                   ELSE None
                  IN  IF audio_url = None
                      THEN EnclosureLineCount(blocks[k]) = 0
                      ELSE /\ EnclosureLineCount(blocks[k]) = 1
                           /\ Enclosures(blocks[k]) = << CharwiseEscape(audio_url) >>
            /\ call.fn = "generate_feed_from_hardcoded_data" =>
                  \A k \in 1..Len(blocks) : EnclosureLineCount(blocks[k]) = 0

(* a record with an audio URL and a record without one, rendered with one
   enclosure between them *)
C7_Witness ==
    /\ call.fn = "generate_rss"
    /\ call.done
    /\ Len(call.arg) = 2
    /\ Truthy(get_audio_url(call.arg[1]))
    /\ "audio_url" \notin DOMAIN call.arg[2]
    /\ Len(ItemBlocks(call.res)) = 2
    /\ EnclosureLineCount(ItemBlocks(call.res)[1]) = 1
    /\ EnclosureLineCount(ItemBlocks(call.res)[2]) = 0

(* the whitespace tokens of a date string once its dots are removed *)
DateTokens(s) == split(replace(s, ".", <<>>))

(* C8: for a date string "D mon. Y" with a mapped month abbreviation,
   parse_pt_date() returns that day, month and year at 12:00:00; a three-token
   string with an unrecognized month gives month 1; any other number of
   tokens gives the current time. *)
C8_ParsePtDate ==
    (call.fn = "parse_pt_date" /\ call.done) =>
        LET t == DateTokens(call.arg)
            r == call.res
        IN  IF Len(t) # 3 THEN r.ok /\ r.val = now
            ELSE IF lower(t[2]) \notin DOMAIN PT_MONTHS THEN r.ok /\ r.val.month = 1
            ELSE (AllDigits(t[1]) /\ AllDigits(t[3])) =>
                    /\ r.ok
                    /\ r.val = [year |-> DecVal(t[3]), month |-> PT_MONTHS[lower(t[2])],
                                day |-> DecVal(t[1]), hour |-> 12, minute |-> 0,
                                second |-> 0]

(* C9: format_itunes_duration() writes MM:SS under an hour and HH:MM:SS from
   an hour on, zero-padded, with MM < 60, SS < 60 and the fields adding up to
   the duration; generate_rss() emits one <itunes:duration> with that text in
   the items whose duration is above 0, and none in the others. *)
C9_DurationElement ==
    /\ (call.fn = "format_itunes_duration" /\ call.done) => IsDurationOf(call.res, call.arg)
    /\ Rendering =>
          LET blocks == ItemBlocks(call.res)
          IN  /\ Len(blocks) = Len(call.arg)
              /\ \A k \in 1..Len(blocks) :
                    IF call.arg[k].duration > 0
                    THEN /\ Len(Durations(blocks[k])) = 1
                         /\ IsDurationOf(Durations(blocks[k])[1], call.arg[k].duration)
                    ELSE Len(Durations(blocks[k])) = 0

(* 3720 seconds, formatted as 01:02:00 *)
C9_Witness ==
    /\ call.fn = "format_itunes_duration"
    /\ call.done
    /\ call.arg = 3720
    /\ call.res = <<"0", "1", ":", "0", "2", ":", "0", "0">>

(* C10: xml_escape() escapes each character of its input exactly once: its
   result is the character-by-character substitution of the five reserved
   characters, every other character unchanged. *)
C10_XmlEscapeOncePerCharacter ==
    (call.fn = "xml_escape" /\ call.done) => call.res = CharwiseEscape(call.arg)

(* an input with an ampersand and a later reserved character *)
C10_Witness ==
    /\ call.fn = "xml_escape"
    /\ call.done
    /\ call.arg = <<"a", "&", "<">>
    /\ call.res = <<"a", "&", "a", "m", "p", ";", "&", "l", "t", ";">>

=============================================================================
